---- MODULE Spec2Model ----
(***************************************************************************)
(* Model of internal/api/album.go: the DownloadAlbum handler (zip archive  *)
(* export of an album), the AlbumThumbnail handler (memory cache in front  *)
(* of the thumbnail generator) and the handlers of the album records.      *)
(* Every request runs on its own worker; the first two handlers are cut    *)
(* into steps at the places where they read or write state shared with     *)
(* other requests (temp folder, memory cache, thumbnail folder), so that   *)
(* concurrent requests interleave there.                                   *)
(***************************************************************************)
EXTENDS Integers, Sequences, FiniteSets, TLC

\* ---------------------------------------------------------------- bounds
MaxPhotos == 3      \* photo files known to the index: 1..MaxPhotos
MaxDl     == 2      \* DownloadAlbum requests in one behaviour
MaxTokens == 2      \* values rnd.Token(3) is drawn from
MaxTh     == 2      \* AlbumThumbnail requests in one behaviour
MaxTime   == 2      \* clock ticks in one behaviour
MaxApi    == 2      \* album API requests in one behaviour

\* ------------------------------------------------------- program constants
Count == 2          \* form.PhotoSearch{Count: 10000}, scaled
Hour  == 1          \* time.Hour, in clock ticks

Photos   == 1..MaxPhotos
DlReqs   == 1..MaxDl
ThReqs   == 1..MaxTh
Tokens   == 1..MaxTokens
Albums   == {"a1", "a2"}
NoAlbum  == "none"
UIDs     == Albums \cup {NoAlbum}

VARIABLES
  albumPhotos,   \* database: album uid -> ordered photos of the album
  originals,     \* photo files that exist below conf.OriginalsPath()
  fileMissing,   \* database: photos whose FileMissing flag is set
  tmpDir,        \* conf.TempPath()/album exists
  tmpFiles,      \* names of the files in conf.TempPath()/album
  dl,            \* DownloadAlbum requests: request -> handler state
  thumbUncached, \* conf.ThumbUncached()
  thumbFiles,    \* artifacts published below conf.ThumbPath()
  resized,       \* how often each artifact has been generated
  cache,         \* service.Cache(): key -> entry
  now,           \* clock
  th,            \* AlbumThumbnail requests: request -> handler state
  albumTable,    \* database: album uid -> the album's record
  events,        \* the album events published so far
  api,           \* the album API request handled last, and its outcome
  handled        \* number of album API requests handled

vars == <<albumPhotos, originals, fileMissing, tmpDir, tmpFiles, dl,
          thumbUncached, thumbFiles, resized, cache, now, th,
          albumTable, events, api, handled>>

dbVars == <<albumPhotos, originals>>
dlVars == <<tmpDir, tmpFiles, dl>>
thVars == <<fileMissing, thumbUncached, thumbFiles, resized, cache, now, th>>
apiVars == <<albumTable, events, api, handled>>

\* ---------------------------------------------------------------- helpers
\* the first n elements of s
Take(s, n) == SubSeq(s, 1, IF Len(s) < n THEN Len(s) ELSE n)

RECURSIVE SelectExisting(_, _)
\* s without the elements that are not in E, order kept
SelectExisting(s, E) ==
  IF s = <<>> THEN <<>>
  ELSE IF s[1] \in E THEN <<s[1]>> \o SelectExisting(Tail(s), E)
       ELSE SelectExisting(Tail(s), E)

\* ------------------------------------------------------------- responses
NoResp == [status |-> 0, ctype |-> "", body |-> <<>>, disposition |-> <<>>]

\* the icons served in place of an image
brokenIconSvg == <<"svg", "broken">>
photoIconSvg  == <<"svg", "photo">>
albumIconSvg  == <<"svg", "album">>

Data(status, ctype, body) ==
  [status |-> status, ctype |-> ctype, body |-> body, disposition |-> <<>>]

AbortWithStatusJSON(status) == Data(status, "application/json", <<"json", "error">>)

\* ========================================================= DownloadAlbum

\* query.AlbumByUID: the album's record, or an error when there is none
AlbumByUID(uid) == uid \in Albums /\ albumTable[uid].exists

\* query.PhotoSearch with Count and Offset 0: at most Count photos of the album
PhotoSearch(uid) == Take(albumPhotos[uid], Count)

\* f.ShareFileName(): the name of the entry inside the archive
ShareFileName(f) == <<"share", f>>

\* fs.FileExists(path.Join(conf.OriginalsPath(), f.FileName))
FileExists(f) == f \in originals

\* zipBaseName: "<Title(AlbumSlug)>-<zipToken>.zip"
zipBaseName(uid, zipToken) == <<uid, zipToken>>

zipFileName(r) == zipBaseName(dl[r].uid, dl[r].zipToken)

DlIdle ==
  [pc |-> "idle", invalidToken |-> FALSE, uid |-> NoAlbum, p |-> <<>>,
   zipToken |-> 0, n |-> 0, entries |-> <<>>, skipped |-> <<>>,
   fileOpen |-> FALSE, writerOpen |-> FALSE, madeDir |-> FALSE,
   created |-> FALSE, built |-> FALSE, served |-> FALSE,
   removeLogged |-> FALSE, resp |-> NoResp]

\* the deferred zipWriter.Close() and newZipFile.Close(), run at every return
\* after the file was created
Deferred(d) == [d EXCEPT !.writerOpen = FALSE, !.fileOpen = FALSE]

Finish(d, resp) == [Deferred(d) EXCEPT !.pc = "done", !.resp = resp]

\* rnd.Token(3): a random value.  Tokens are only ever compared for equality,
\* so the values are numbered in the order in which they are first drawn: a
\* draw yields one of the values drawn before, or the next unused one.
Drawn == {dl[q].zipToken : q \in DlReqs} \ {0}

Token == {t \in Tokens : t <= Cardinality(Drawn) + 1}

\* a handler that takes every photo of the album into the result set
DownloadAlbum_Begin_NoLimit(r) ==
  /\ dl[r].pc = "idle"
  /\ IF r = 1 THEN TRUE ELSE dl[r - 1].pc # "idle"
  /\ \E uid \in UIDs, invalidToken \in BOOLEAN, searchErr \in BOOLEAN,
        zipToken \in Token, mkdirErr \in BOOLEAN :
       IF invalidToken
         THEN /\ dl' = [dl EXCEPT ![r].pc = "done", ![r].invalidToken = TRUE,
                            ![r].resp = Data(403, "image/svg+xml", brokenIconSvg)]
              /\ tmpDir' = tmpDir
       ELSE IF ~AlbumByUID(uid) \/ searchErr
         THEN /\ dl' = [dl EXCEPT ![r].pc = "done",
                                  ![r].resp = AbortWithStatusJSON(404)]
              /\ tmpDir' = tmpDir
       ELSE IF mkdirErr /\ ~tmpDir
         THEN /\ dl' = [dl EXCEPT ![r].pc = "done",
                                  ![r].resp = AbortWithStatusJSON(500)]
              /\ tmpDir' = tmpDir
       ELSE /\ dl' = [dl EXCEPT ![r].pc = "create", ![r].uid = uid,
                                ![r].p = albumPhotos[uid], ![r].zipToken = zipToken,
                                ![r].madeDir = TRUE]
            /\ tmpDir' = TRUE
  /\ UNCHANGED <<tmpFiles, dbVars, apiVars, thVars>>

\* lines 337-371: token check, album and photo lookup, name of the archive,
\* os.MkdirAll(zipPath)
DownloadAlbum_Begin(r) ==
  /\ dl[r].pc = "idle"
  /\ IF r = 1 THEN TRUE ELSE dl[r - 1].pc # "idle"   \* numbered as they arrive
  /\ \E uid \in UIDs, invalidToken \in BOOLEAN, searchErr \in BOOLEAN,
        zipToken \in Token, mkdirErr \in BOOLEAN :
       IF invalidToken
         THEN /\ dl' = [dl EXCEPT ![r].pc = "done", ![r].invalidToken = TRUE,
                            ![r].resp = Data(403, "image/svg+xml", brokenIconSvg)]
              /\ tmpDir' = tmpDir
       ELSE IF ~AlbumByUID(uid) \/ searchErr
         THEN /\ dl' = [dl EXCEPT ![r].pc = "done",
                                  ![r].resp = AbortWithStatusJSON(404)]
              /\ tmpDir' = tmpDir
       ELSE IF mkdirErr /\ ~tmpDir
         THEN /\ dl' = [dl EXCEPT ![r].pc = "done",
                                  ![r].resp = AbortWithStatusJSON(500)]
              /\ tmpDir' = tmpDir
       ELSE /\ dl' = [dl EXCEPT ![r].pc = "create", ![r].uid = uid,
                                ![r].p = PhotoSearch(uid), ![r].zipToken = zipToken,
                                ![r].madeDir = TRUE]
            /\ tmpDir' = TRUE
  /\ UNCHANGED <<tmpFiles, dbVars, apiVars, thVars>>

\* a handler whose failed os.Create leaves an empty file behind
DownloadAlbum_Create_LeavesFile(r) ==
  /\ dl[r].pc = "create"
  /\ \/ /\ tmpFiles' = tmpFiles \cup {zipFileName(r)}
        /\ dl' = [dl EXCEPT ![r].pc = "loop", ![r].created = TRUE,
                            ![r].fileOpen = TRUE, ![r].writerOpen = TRUE]
     \/ /\ tmpFiles' = tmpFiles \cup {zipFileName(r)}
        /\ dl' = [dl EXCEPT ![r].pc = "done",
                            ![r].resp = AbortWithStatusJSON(500)]
  /\ UNCHANGED <<tmpDir, dbVars, apiVars, thVars>>

\* lines 373-384: os.Create(zipFileName), zip.NewWriter, the two defers
DownloadAlbum_Create(r) ==
  /\ dl[r].pc = "create"
  /\ \/ /\ tmpFiles' = tmpFiles \cup {zipFileName(r)}
        /\ dl' = [dl EXCEPT ![r].pc = "loop", ![r].created = TRUE,
                            ![r].fileOpen = TRUE, ![r].writerOpen = TRUE]
     \/ /\ tmpFiles' = tmpFiles
        /\ dl' = [dl EXCEPT ![r].pc = "done",
                            ![r].resp = AbortWithStatusJSON(500)]
  /\ UNCHANGED <<tmpDir, dbVars, apiVars, thVars>>

\* addFileToZip(zipWriter, fileName, fileAlias) without an error: the file is
\* the next entry of the archive
addFileToZip(entries, f) == Append(entries, [file |-> f, alias |-> ShareFileName(f)])

\* a loop that treats a missing source file as a failure of the build
DownloadAlbum_Loop_MissingAborts(r) ==
  /\ dl[r].pc = "loop"
  /\ dl[r].n < Len(dl[r].p)
  /\ LET f == dl[r].p[dl[r].n + 1] IN
       IF FileExists(f)
         THEN \/ dl' = [dl EXCEPT ![r].n = @ + 1,
                                  ![r].entries = addFileToZip(@, f)]
              \/ dl' = [dl EXCEPT ![r] = Finish(@, AbortWithStatusJSON(500))]
         ELSE dl' = [dl EXCEPT ![r] = Finish(@, AbortWithStatusJSON(500))]
  /\ UNCHANGED <<tmpDir, tmpFiles, dbVars, apiVars, thVars>>

\* a loop that walks the result set from its end
DownloadAlbum_Loop_Backwards(r) ==
  /\ dl[r].pc = "loop"
  /\ dl[r].n < Len(dl[r].p)
  /\ LET f == dl[r].p[Len(dl[r].p) - dl[r].n] IN
       IF FileExists(f)
         THEN \/ dl' = [dl EXCEPT ![r].n = @ + 1,
                                  ![r].entries = addFileToZip(@, f)]
              \/ dl' = [dl EXCEPT ![r] = Finish(@, AbortWithStatusJSON(500))]
         ELSE dl' = [dl EXCEPT ![r].n = @ + 1, ![r].skipped = Append(@, f)]
  /\ UNCHANGED <<tmpDir, tmpFiles, dbVars, apiVars, thVars>>

\* lines 386-400: one iteration of the loop over the result set
DownloadAlbum_Loop(r) ==
  /\ dl[r].pc = "loop"
  /\ dl[r].n < Len(dl[r].p)
  /\ LET f == dl[r].p[dl[r].n + 1] IN
       IF FileExists(f)
         THEN \/ dl' = [dl EXCEPT ![r].n = @ + 1,
                                  ![r].entries = addFileToZip(@, f)]
              \/ dl' = [dl EXCEPT ![r] = Finish(@, AbortWithStatusJSON(500))]
         ELSE dl' = [dl EXCEPT ![r].n = @ + 1, ![r].skipped = Append(@, f)]
  /\ UNCHANGED <<tmpDir, tmpFiles, dbVars, apiVars, thVars>>

\* a handler that leaves the closing of the writer and of the file to the
\* deferred calls, which run when it returns
DownloadAlbum_Close_DeferredOnly(r) ==
  /\ dl[r].pc = "loop"
  /\ dl[r].n = Len(dl[r].p)
  /\ dl' = [dl EXCEPT ![r] =
       IF zipFileName(r) \notin tmpFiles
         THEN [Finish(@, Data(404, "image/svg+xml", photoIconSvg))
                 EXCEPT !.built = TRUE]
         ELSE [@ EXCEPT !.pc = "serve", !.built = TRUE]]
  /\ UNCHANGED <<tmpDir, tmpFiles, dbVars, apiVars, thVars>>

\* lines 402-412: close writer and file, look for the archive, set the header
DownloadAlbum_Close(r) ==
  /\ dl[r].pc = "loop"
  /\ dl[r].n = Len(dl[r].p)
  /\ dl' = [dl EXCEPT ![r] =
       IF zipFileName(r) \notin tmpFiles
         THEN [Finish(@, Data(404, "image/svg+xml", photoIconSvg))
                 EXCEPT !.built = TRUE]
         ELSE [Deferred(@) EXCEPT !.pc = "serve", !.built = TRUE]]
  /\ UNCHANGED <<tmpDir, tmpFiles, dbVars, apiVars, thVars>>

\* line 414: c.File(zipFileName), with the attachment header of line 412
DownloadAlbum_File(r) ==
  /\ dl[r].pc = "serve"
  /\ dl' = [dl EXCEPT ![r].pc = "remove",
                      ![r].served = zipFileName(r) \in tmpFiles,
                      ![r].resp =
       IF zipFileName(r) \in tmpFiles
         THEN [status |-> 200, ctype |-> "application/zip",
               body |-> <<"file", zipFileName(r)>>,
               disposition |-> <<"attachment", zipFileName(r)>>]
         ELSE [status |-> 404, ctype |-> "text/plain", body |-> <<"text", "404 page not found">>,
               disposition |-> <<"attachment", zipFileName(r)>>]]
  /\ UNCHANGED <<tmpDir, tmpFiles, dbVars, apiVars, thVars>>

\* a handler that returns after serving without removing the archive
DownloadAlbum_Remove_Forgotten(r) ==
  /\ dl[r].pc = "remove"
  /\ tmpFiles' = tmpFiles
  /\ dl' = [dl EXCEPT ![r].pc = "done"]
  /\ UNCHANGED <<tmpDir, dbVars, apiVars, thVars>>

\* lines 416-418: os.Remove(zipFileName); an error is logged
DownloadAlbum_Remove(r) ==
  /\ dl[r].pc = "remove"
  /\ \/ /\ zipFileName(r) \in tmpFiles
        /\ tmpFiles' = tmpFiles \ {zipFileName(r)}
        /\ dl' = [dl EXCEPT ![r].pc = "done"]
     \/ /\ tmpFiles' = tmpFiles
        /\ dl' = [dl EXCEPT ![r].pc = "done", ![r].removeLogged = TRUE]
  /\ UNCHANGED <<tmpDir, dbVars, apiVars, thVars>>

DownloadAlbum(r) ==
  \/ DownloadAlbum_Begin(r)
  \/ DownloadAlbum_Create(r)
  \/ DownloadAlbum_Loop(r)
  \/ DownloadAlbum_Close(r)
  \/ DownloadAlbum_File(r)
  \/ DownloadAlbum_Remove(r)

\* ======================================================== AlbumThumbnail

\* thumb.Types: type name -> policy; the names outside it are unknown types
TypeNames == {"tile_224", "fit_7680"}
NoType    == "bogus"

\* thumbType.ExceedsLimit()
ExceedsLimit(typeName) == typeName = "fit_7680"

\* thumbType.OnDemand()
OnDemand(typeName) == typeName = "fit_7680"

\* cacheKey: "album-thumbnail:<uid>:<typeName>"
cacheKey(uid, typeName) == <<"album-thumbnail", uid, typeName>>

CacheKeys == {cacheKey(uid, t) : uid \in Albums, t \in TypeNames}

\* no entry under a key
NoEntry == [val |-> <<>>, exp |-> -1, at |-> -1]

\* gc.Get(key): the entry is found until its expiration time has passed;
\* a lookup changes nothing
CacheFound(key) == cache[key] # NoEntry /\ ~(now > cache[key].exp)

\* a lifetime of more than an hour
ThumbTTL_Longer == Hour + 1

\* time.Hour, the lifetime handed to gc.Set
ThumbTTL == Hour

\* gc.Set(key, val, ttl); "at" remembers when the entry was stored
CacheSet(key, val, ttl) ==
  [cache EXCEPT ![key] = [val |-> val, exp |-> now + ttl, at |-> now]]

\* query.AlbumThumbByUID: the file of the album's first photo, or an error
HasAlbumThumb(uid) == uid \in Albums /\ albumPhotos[uid] # <<>>
AlbumThumbByUID(uid) == albumPhotos[uid][1]

\* the artifact of a source file and a type in conf.ThumbPath(): its name is
\* derived from the file hash and the type's width, height and options
Artifact(f, typeName) == <<"thumb", f, typeName>>

Artifacts == {Artifact(f, t) : f \in Photos, t \in TypeNames}

\* the bytes of the thumbnail of a source file for a type
ThumbData(f, typeName) == <<"jpeg", f, typeName>>

ThIdle ==
  [pc |-> "idle", invalidToken |-> FALSE, uid |-> NoAlbum,
   typeName |-> NoType, download |-> FALSE,
   f |-> 0, thumbnail |-> <<>>, disposition |-> <<>>, looked |-> FALSE,
   hit |-> FALSE, resolved |-> FALSE, generator |-> "", resizes |-> 0,
   stored |-> FALSE, reported |-> "", resp |-> NoResp]

\* a handler that looks into the memory cache before it checks the token
AlbumThumbnail_Get_CacheBeforeToken(r) ==
  /\ th[r].pc = "idle"
  /\ IF r = 1 THEN TRUE ELSE th[r - 1].pc # "idle"
  /\ \E uid \in Albums, typeName \in TypeNames \cup {NoType},
        invalidToken \in BOOLEAN, download \in BOOLEAN :
       th' = [th EXCEPT ![r] =
         IF typeName \notin TypeNames
           THEN [@ EXCEPT !.pc = "done", !.typeName = typeName,
                          !.invalidToken = invalidToken,
                          !.resp = Data(200, "image/svg+xml", photoIconSvg)]
         ELSE IF CacheFound(cacheKey(uid, typeName))
           THEN [@ EXCEPT !.pc = "done", !.uid = uid, !.typeName = typeName,
                          !.invalidToken = invalidToken,
                          !.download = download, !.looked = TRUE, !.hit = TRUE,
                          !.resp = Data(200, "image/jpeg",
                                        cache[cacheKey(uid, typeName)].val)]
         ELSE IF invalidToken
           THEN [@ EXCEPT !.pc = "done", !.invalidToken = TRUE, !.looked = TRUE,
                          !.resp = Data(403, "image/svg+xml", brokenIconSvg)]
         ELSE [@ EXCEPT !.pc = "miss", !.uid = uid, !.typeName = typeName,
                        !.download = download, !.looked = TRUE]]
  /\ UNCHANGED <<fileMissing, thumbUncached, thumbFiles, resized, cache, now,
                 dbVars, apiVars, dlVars>>

\* a handler that looks into the memory cache for a type it does not know
AlbumThumbnail_Get_UnknownLooksUp(r) ==
  /\ th[r].pc = "idle"
  /\ IF r = 1 THEN TRUE ELSE th[r - 1].pc # "idle"
  /\ \E uid \in Albums, typeName \in TypeNames \cup {NoType},
        invalidToken \in BOOLEAN, download \in BOOLEAN :
       th' = [th EXCEPT ![r] =
         IF invalidToken
           THEN [@ EXCEPT !.pc = "done", !.invalidToken = TRUE,
                          !.resp = Data(403, "image/svg+xml", brokenIconSvg)]
         ELSE IF typeName \notin TypeNames
           THEN [@ EXCEPT !.pc = "done", !.typeName = typeName, !.looked = TRUE,
                          !.resp = Data(200, "image/svg+xml", photoIconSvg)]
         ELSE IF CacheFound(cacheKey(uid, typeName))
           THEN [@ EXCEPT !.pc = "done", !.uid = uid, !.typeName = typeName,
                          !.download = download, !.looked = TRUE, !.hit = TRUE,
                          !.resp = Data(200, "image/jpeg",
                                        cache[cacheKey(uid, typeName)].val)]
         ELSE [@ EXCEPT !.pc = "miss", !.uid = uid, !.typeName = typeName,
                        !.download = download, !.looked = TRUE]]
  /\ UNCHANGED <<fileMissing, thumbUncached, thumbFiles, resized, cache, now,
                 dbVars, apiVars, dlVars>>

\* lines 429-453: token check, type lookup, memory cache lookup
AlbumThumbnail_Get(r) ==
  /\ th[r].pc = "idle"
  /\ IF r = 1 THEN TRUE ELSE th[r - 1].pc # "idle"   \* numbered as they arrive
  /\ \E uid \in Albums, typeName \in TypeNames \cup {NoType},
        invalidToken \in BOOLEAN, download \in BOOLEAN :
       th' = [th EXCEPT ![r] =
         IF invalidToken
           THEN [@ EXCEPT !.pc = "done", !.invalidToken = TRUE,
                          !.resp = Data(403, "image/svg+xml", brokenIconSvg)]
         ELSE IF typeName \notin TypeNames
           THEN [@ EXCEPT !.pc = "done", !.typeName = typeName,
                          !.resp = Data(200, "image/svg+xml", photoIconSvg)]
         ELSE IF CacheFound(cacheKey(uid, typeName))
           THEN [@ EXCEPT !.pc = "done", !.uid = uid, !.typeName = typeName,
                          !.download = download, !.looked = TRUE, !.hit = TRUE,
                          !.resp = Data(200, "image/jpeg",
                                        cache[cacheKey(uid, typeName)].val)]
         ELSE [@ EXCEPT !.pc = "miss", !.uid = uid, !.typeName = typeName,
                        !.download = download, !.looked = TRUE]]
  /\ UNCHANGED <<fileMissing, thumbUncached, thumbFiles, resized, cache, now,
                 dbVars, apiVars, dlVars>>

\* thumb.FromCache, first half: the artifact is already in the thumbnail folder
InThumbCache(f, typeName) == Artifact(f, typeName) \in thumbFiles

\* the file a successful resize leaves: thumb.FromCache publishes the artifact
\* in the thumbnail folder, thumb.FromFile writes a scratch copy
Resized(generator, f, typeName) ==
  IF generator = "FromCache" THEN Artifact(f, typeName)
  ELSE <<"scratch", f, typeName>>

Published(generator, f, typeName) ==
  IF generator = "FromCache" THEN thumbFiles \cup {Artifact(f, typeName)}
  ELSE thumbFiles

\* ioutil.ReadFile(thumbnail) can succeed
Readable(thumbnail) == thumbnail[1] = "thumb" => thumbnail \in thumbFiles

\* a choice of the generator that forgets the global uncached mode
OnDemandMode_TypeOnly(typeName) == OnDemand(typeName)

\* line 484: the on-demand generator is chosen
OnDemandMode(typeName) == thumbUncached \/ OnDemand(typeName)

\* a handler that answers with the icon for a missing source file but does
\* not report the file
AlbumThumbnail_Source_NoReport(r) ==
  /\ th[r].pc = "miss"
  /\ LET uid == th[r].uid
         t   == th[r].typeName
         f   == AlbumThumbByUID(uid)
     IN
     IF ~HasAlbumThumb(uid)
       THEN /\ th' = [th EXCEPT ![r].pc = "done",
                         ![r].resp = Data(200, "image/svg+xml", albumIconSvg)]
            /\ fileMissing' = fileMissing
     ELSE IF ~FileExists(f)
       THEN /\ th' = [th EXCEPT ![r].pc = "done", ![r].resolved = TRUE, ![r].f = f,
                         ![r].resp = Data(200, "image/svg+xml", photoIconSvg)]
            /\ fileMissing' = fileMissing
     ELSE IF ExceedsLimit(t) /\ ~th[r].download
       THEN /\ th' = [th EXCEPT ![r].pc = "done", ![r].resolved = TRUE, ![r].f = f,
                         ![r].resp = Data(200, "original", <<"file", f>>)]
            /\ fileMissing' = fileMissing
     ELSE IF OnDemandMode(t)
       THEN /\ th' = [th EXCEPT ![r].pc = "resize", ![r].resolved = TRUE, ![r].f = f,
                         ![r].generator = "FromFile"]
            /\ fileMissing' = fileMissing
     ELSE /\ th' = [th EXCEPT ![r].resolved = TRUE, ![r].f = f,
                       ![r].generator = "FromCache",
                       ![r].pc = IF InThumbCache(f, t) THEN "read" ELSE "resize",
                       ![r].thumbnail = IF InThumbCache(f, t) THEN Artifact(f, t) ELSE <<>>,
                       ![r].disposition =
                         IF InThumbCache(f, t) /\ th[r].download
                           THEN <<"attachment", ShareFileName(f)>> ELSE <<>>]
          /\ fileMissing' = fileMissing
  /\ UNCHANGED <<thumbUncached, thumbFiles, resized, cache, now, dbVars, apiVars, dlVars>>

\* a handler whose cached mode resizes whether or not the artifact exists
AlbumThumbnail_Source_AlwaysResize(r) ==
  /\ th[r].pc = "miss"
  /\ LET uid == th[r].uid
         t   == th[r].typeName
         f   == AlbumThumbByUID(uid)
     IN
     IF ~HasAlbumThumb(uid)
       THEN /\ th' = [th EXCEPT ![r].pc = "done",
                         ![r].resp = Data(200, "image/svg+xml", albumIconSvg)]
            /\ fileMissing' = fileMissing
     ELSE IF ~FileExists(f)
       THEN \E updateErr \in BOOLEAN :
            /\ th' = [th EXCEPT ![r].pc = "done", ![r].resolved = TRUE, ![r].f = f,
                         ![r].reported = IF updateErr THEN "logged" ELSE "updated",
                         ![r].resp = Data(200, "image/svg+xml", photoIconSvg)]
            /\ fileMissing' = IF updateErr THEN fileMissing ELSE fileMissing \cup {f}
     ELSE IF ExceedsLimit(t) /\ ~th[r].download
       THEN /\ th' = [th EXCEPT ![r].pc = "done", ![r].resolved = TRUE, ![r].f = f,
                         ![r].resp = Data(200, "original", <<"file", f>>)]
            /\ fileMissing' = fileMissing
     ELSE IF OnDemandMode(t)
       THEN /\ th' = [th EXCEPT ![r].pc = "resize", ![r].resolved = TRUE, ![r].f = f,
                         ![r].generator = "FromFile"]
            /\ fileMissing' = fileMissing
     ELSE /\ th' = [th EXCEPT ![r].resolved = TRUE, ![r].f = f,
                       ![r].generator = "FromCache", ![r].pc = "resize"]
          /\ fileMissing' = fileMissing
  /\ UNCHANGED <<thumbUncached, thumbFiles, resized, cache, now, dbVars, apiVars, dlVars>>

\* lines 455-488: source lookup, missing original, size limit, choice of the
\* generator; FromCache returns at once when the artifact exists
AlbumThumbnail_Source(r) ==
  /\ th[r].pc = "miss"
  /\ LET uid == th[r].uid
         t   == th[r].typeName
         f   == AlbumThumbByUID(uid)
     IN
     IF ~HasAlbumThumb(uid)
       THEN /\ th' = [th EXCEPT ![r].pc = "done",
                         ![r].resp = Data(200, "image/svg+xml", albumIconSvg)]
            /\ fileMissing' = fileMissing
     ELSE IF ~FileExists(f)
       THEN \E updateErr \in BOOLEAN :
            /\ th' = [th EXCEPT ![r].pc = "done", ![r].resolved = TRUE, ![r].f = f,
                         ![r].reported = IF updateErr THEN "logged" ELSE "updated",
                         ![r].resp = Data(200, "image/svg+xml", photoIconSvg)]
            /\ fileMissing' = IF updateErr THEN fileMissing ELSE fileMissing \cup {f}
     ELSE IF ExceedsLimit(t) /\ ~th[r].download
       THEN /\ th' = [th EXCEPT ![r].pc = "done", ![r].resolved = TRUE, ![r].f = f,
                         ![r].resp = Data(200, "original", <<"file", f>>)]
            /\ fileMissing' = fileMissing
     ELSE IF OnDemandMode(t)
       THEN /\ th' = [th EXCEPT ![r].pc = "resize", ![r].resolved = TRUE, ![r].f = f,
                         ![r].generator = "FromFile"]
            /\ fileMissing' = fileMissing
     ELSE /\ th' = [th EXCEPT ![r].resolved = TRUE, ![r].f = f,
                       ![r].generator = "FromCache",
                       ![r].pc = IF InThumbCache(f, t) THEN "read" ELSE "resize",
                       ![r].thumbnail = IF InThumbCache(f, t) THEN Artifact(f, t) ELSE <<>>,
                       ![r].disposition =
                         IF InThumbCache(f, t) /\ th[r].download
                           THEN <<"attachment", ShareFileName(f)>> ELSE <<>>]
          /\ fileMissing' = fileMissing
  /\ UNCHANGED <<thumbUncached, thumbFiles, resized, cache, now, dbVars, apiVars, dlVars>>

\* lines 484-498: the resize of thumb.FromFile and of the second half of
\* thumb.FromCache, which publishes the artifact; then the download header
AlbumThumbnail_Resize(r) ==
  /\ th[r].pc = "resize"
  /\ LET f == th[r].f
         t == th[r].typeName
     IN
     \/ /\ resized' = [resized EXCEPT ![Artifact(f, t)] = @ + 1]
        /\ thumbFiles' = Published(th[r].generator, f, t)
        /\ th' = [th EXCEPT ![r].pc = "read", ![r].resizes = @ + 1,
                     ![r].thumbnail = Resized(th[r].generator, f, t),
                     ![r].disposition =
                       IF th[r].download THEN <<"attachment", ShareFileName(f)>> ELSE <<>>]
     \/ /\ resized' = [resized EXCEPT ![Artifact(f, t)] = @ + 1]
        /\ thumbFiles' = thumbFiles
        /\ th' = [th EXCEPT ![r].pc = "done", ![r].resizes = @ + 1,
                     ![r].resp = Data(200, "image/svg+xml", photoIconSvg)]
  /\ UNCHANGED <<fileMissing, thumbUncached, cache, now, dbVars, apiVars, dlVars>>

\* a handler that stores what it answers with when the read fails
AlbumThumbnail_Read_StoresFallback(r) ==
  /\ th[r].pc = "read"
  /\ LET f == th[r].f
         t == th[r].typeName
     IN
     \/ /\ Readable(th[r].thumbnail)
        /\ cache' = CacheSet(cacheKey(th[r].uid, t), ThumbData(f, t), ThumbTTL)
        /\ th' = [th EXCEPT ![r].pc = "done", ![r].stored = TRUE,
                     ![r].resp = [Data(200, "image/jpeg", ThumbData(f, t))
                                    EXCEPT !.disposition = th[r].disposition]]
     \/ /\ cache' = CacheSet(cacheKey(th[r].uid, t), albumIconSvg, ThumbTTL)
        /\ th' = [th EXCEPT ![r].pc = "done",
                     ![r].resp = [Data(200, "image/svg+xml", albumIconSvg)
                                    EXCEPT !.disposition = th[r].disposition]]
  /\ UNCHANGED <<fileMissing, thumbUncached, thumbFiles, resized, now, dbVars, apiVars, dlVars>>

\* lines 500-512: ioutil.ReadFile(thumbnail), gc.Set, the response
AlbumThumbnail_Read(r) ==
  /\ th[r].pc = "read"
  /\ LET f == th[r].f
         t == th[r].typeName
     IN
     \/ /\ Readable(th[r].thumbnail)
        /\ cache' = CacheSet(cacheKey(th[r].uid, t), ThumbData(f, t), ThumbTTL)
        /\ th' = [th EXCEPT ![r].pc = "done", ![r].stored = TRUE,
                     ![r].resp = [Data(200, "image/jpeg", ThumbData(f, t))
                                    EXCEPT !.disposition = th[r].disposition]]
     \/ /\ cache' = cache
        /\ th' = [th EXCEPT ![r].pc = "done",
                     ![r].resp = [Data(200, "image/svg+xml", albumIconSvg)
                                    EXCEPT !.disposition = th[r].disposition]]
  /\ UNCHANGED <<fileMissing, thumbUncached, thumbFiles, resized, now, dbVars, apiVars, dlVars>>

AlbumThumbnail(r) ==
  \/ AlbumThumbnail_Get(r)
  \/ AlbumThumbnail_Source(r)
  \/ AlbumThumbnail_Resize(r)
  \/ AlbumThumbnail_Read(r)

\* the clock advances.  The handlers read it only through the lifetime of
\* the cache entries, so time counts from the first store.
Tick ==
  /\ now < MaxTime
  /\ cache # [k \in CacheKeys |-> NoEntry]
  /\ now' = now + 1
  /\ UNCHANGED <<fileMissing, thumbUncached, thumbFiles, resized, cache, th,
                 dbVars, apiVars, dlVars>>

\* ============================================================= album API
\* The handlers of the album records.  Each of them keeps nothing between
\* its statements but what it writes to the database, so a request is one
\* step; the request handled last is kept with its outcome.

ApiIdle ==
  [op |-> "", unauthorized |-> FALSE, uid |-> NoAlbum, read |-> FALSE,
   resp |-> NoResp]

\* c.JSON(status, body)
JSON(status, body) == Data(status, "application/json", body)

\* the outcome of a request: "unauthorized" is what Unauthorized(c, conf)
\* says of the request, "read" whether a query for albums was made
Answer(op, unauthorized, uid, read, resp) ==
  /\ api' = [op |-> op, unauthorized |-> unauthorized, uid |-> uid,
             read |-> read, resp |-> resp]
  /\ handled' = handled + 1

\* PublishAlbumEvent(e, uid, c)
PublishAlbumEvent(e, uid) == Append(events, <<e, uid>>)

\* form.Selection: the photos named in the body of a request
Selections == SUBSET {1, MaxPhotos}

RECURSIVE AddPhotos(_, _)
\* entity.FirstOrCreatePhotoAlbum for every photo of the selection: a photo
\* that is not in the album yet is added to it
AddPhotos(s, S) ==
  IF S = {} THEN s
  ELSE LET x == CHOOSE y \in S : \A z \in S : y <= z IN
       AddPhotos(IF \E i \in 1..Len(s) : s[i] = x THEN s ELSE Append(s, x),
                 S \ {x})

\* lines 30-58
GetAlbums ==
  /\ handled < MaxApi
  /\ \E unauthorized \in BOOLEAN, bindErr \in BOOLEAN, searchErr \in BOOLEAN :
       IF unauthorized
         THEN Answer("GetAlbums", TRUE, NoAlbum, FALSE, AbortWithStatusJSON(401))
       ELSE IF bindErr
         THEN Answer("GetAlbums", FALSE, NoAlbum, FALSE, AbortWithStatusJSON(400))
       ELSE IF searchErr
         THEN Answer("GetAlbums", FALSE, NoAlbum, TRUE, AbortWithStatusJSON(400))
       ELSE Answer("GetAlbums", FALSE, NoAlbum, TRUE,
                   JSON(200, <<"albums", {a \in Albums : albumTable[a].exists}>>))
  /\ UNCHANGED <<albumTable, events, dbVars, dlVars, thVars>>

\* lines 61-73
GetAlbum ==
  /\ handled < MaxApi
  /\ \E unauthorized \in BOOLEAN, uid \in UIDs :
       IF ~AlbumByUID(uid)
         THEN Answer("GetAlbum", unauthorized, uid, TRUE, AbortWithStatusJSON(404))
       ELSE Answer("GetAlbum", unauthorized, uid, TRUE,
                   JSON(200, <<"album", uid, albumTable[uid]>>))
  /\ UNCHANGED <<albumTable, events, dbVars, dlVars, thVars>>

\* lines 76-109; the new album has no photos
CreateAlbum ==
  /\ handled < MaxApi
  /\ \E unauthorized \in BOOLEAN, bindErr \in BOOLEAN, uid \in Albums,
        favorite \in BOOLEAN :
       IF unauthorized
         THEN /\ Answer("CreateAlbum", TRUE, NoAlbum, FALSE, AbortWithStatusJSON(401))
              /\ UNCHANGED <<albumTable, events, albumPhotos>>
       ELSE IF bindErr \/ albumTable[uid].exists
         THEN /\ Answer("CreateAlbum", FALSE, NoAlbum, FALSE, AbortWithStatusJSON(400))
              /\ UNCHANGED <<albumTable, events, albumPhotos>>
       ELSE /\ albumTable' = [albumTable EXCEPT ![uid] =
                                [exists |-> TRUE, favorite |-> favorite]]
            /\ albumPhotos' = [albumPhotos EXCEPT ![uid] = <<>>]
            /\ events' = PublishAlbumEvent("created", uid)
            /\ Answer("CreateAlbum", FALSE, uid, FALSE,
                      JSON(200, <<"album", uid, albumTable'[uid]>>))
  /\ UNCHANGED <<originals, dlVars, thVars>>

\* lines 112-155
UpdateAlbum ==
  /\ handled < MaxApi
  /\ \E unauthorized \in BOOLEAN, uid \in UIDs, formErr \in BOOLEAN,
        bindErr \in BOOLEAN, saveErr \in BOOLEAN, favorite \in BOOLEAN :
       IF unauthorized
         THEN /\ Answer("UpdateAlbum", TRUE, NoAlbum, FALSE, AbortWithStatusJSON(401))
              /\ UNCHANGED <<albumTable, events>>
       ELSE IF ~AlbumByUID(uid)
         THEN /\ Answer("UpdateAlbum", FALSE, uid, TRUE, AbortWithStatusJSON(404))
              /\ UNCHANGED <<albumTable, events>>
       ELSE IF formErr
         THEN /\ Answer("UpdateAlbum", FALSE, uid, TRUE, AbortWithStatusJSON(500))
              /\ UNCHANGED <<albumTable, events>>
       ELSE IF bindErr
         THEN /\ Answer("UpdateAlbum", FALSE, uid, TRUE, AbortWithStatusJSON(400))
              /\ UNCHANGED <<albumTable, events>>
       ELSE IF saveErr
         THEN /\ Answer("UpdateAlbum", FALSE, uid, TRUE, AbortWithStatusJSON(500))
              /\ UNCHANGED <<albumTable, events>>
       ELSE /\ albumTable' = [albumTable EXCEPT ![uid].favorite = favorite]
            /\ events' = PublishAlbumEvent("updated", uid)
            /\ Answer("UpdateAlbum", FALSE, uid, TRUE,
                      JSON(200, <<"album", uid, albumTable'[uid]>>))
  /\ UNCHANGED <<dbVars, dlVars, thVars>>

\* lines 158-183
DeleteAlbum ==
  /\ handled < MaxApi
  /\ \E unauthorized \in BOOLEAN, uid \in UIDs :
       IF unauthorized
         THEN /\ Answer("DeleteAlbum", TRUE, NoAlbum, FALSE, AbortWithStatusJSON(401))
              /\ UNCHANGED <<albumTable, events>>
       ELSE IF ~AlbumByUID(uid)
         THEN /\ Answer("DeleteAlbum", FALSE, uid, TRUE, AbortWithStatusJSON(404))
              /\ UNCHANGED <<albumTable, events>>
       ELSE /\ events' = PublishAlbumEvent("deleted", uid)
            /\ albumTable' = [albumTable EXCEPT ![uid].exists = FALSE]
            /\ Answer("DeleteAlbum", FALSE, uid, TRUE,
                      JSON(200, <<"album", uid, albumTable[uid]>>))
  /\ UNCHANGED <<dbVars, dlVars, thVars>>

\* lines 189-212
LikeAlbum ==
  /\ handled < MaxApi
  /\ \E unauthorized \in BOOLEAN, uid \in UIDs :
       IF unauthorized
         THEN /\ Answer("LikeAlbum", TRUE, NoAlbum, FALSE, AbortWithStatusJSON(401))
              /\ UNCHANGED <<albumTable, events>>
       ELSE IF ~AlbumByUID(uid)
         THEN /\ Answer("LikeAlbum", FALSE, uid, TRUE, AbortWithStatusJSON(404))
              /\ UNCHANGED <<albumTable, events>>
       ELSE /\ albumTable' = [albumTable EXCEPT ![uid].favorite = TRUE]
            /\ events' = PublishAlbumEvent("updated", uid)
            /\ Answer("LikeAlbum", FALSE, uid, TRUE, JSON(200, <<"response">>))
  /\ UNCHANGED <<dbVars, dlVars, thVars>>

\* lines 218-241
DislikeAlbum ==
  /\ handled < MaxApi
  /\ \E unauthorized \in BOOLEAN, uid \in UIDs :
       IF unauthorized
         THEN /\ Answer("DislikeAlbum", TRUE, NoAlbum, FALSE, AbortWithStatusJSON(401))
              /\ UNCHANGED <<albumTable, events>>
       ELSE IF ~AlbumByUID(uid)
         THEN /\ Answer("DislikeAlbum", FALSE, uid, TRUE, AbortWithStatusJSON(404))
              /\ UNCHANGED <<albumTable, events>>
       ELSE /\ albumTable' = [albumTable EXCEPT ![uid].favorite = FALSE]
            /\ events' = PublishAlbumEvent("updated", uid)
            /\ Answer("DislikeAlbum", FALSE, uid, TRUE, JSON(200, <<"response">>))
  /\ UNCHANGED <<dbVars, dlVars, thVars>>

\* lines 244-294
AddPhotosToAlbum ==
  /\ handled < MaxApi
  /\ \E unauthorized \in BOOLEAN, bindErr \in BOOLEAN, uid \in UIDs,
        selectionErr \in BOOLEAN, photos \in Selections :
       IF unauthorized
         THEN /\ Answer("AddPhotosToAlbum", TRUE, NoAlbum, FALSE, AbortWithStatusJSON(401))
              /\ UNCHANGED <<albumPhotos, events>>
       ELSE IF bindErr
         THEN /\ Answer("AddPhotosToAlbum", FALSE, NoAlbum, FALSE, AbortWithStatusJSON(400))
              /\ UNCHANGED <<albumPhotos, events>>
       ELSE IF ~AlbumByUID(uid)
         THEN /\ Answer("AddPhotosToAlbum", FALSE, uid, TRUE, AbortWithStatusJSON(404))
              /\ UNCHANGED <<albumPhotos, events>>
       ELSE IF selectionErr
         THEN /\ Answer("AddPhotosToAlbum", FALSE, uid, TRUE, AbortWithStatusJSON(400))
              /\ UNCHANGED <<albumPhotos, events>>
       ELSE /\ albumPhotos' = [albumPhotos EXCEPT ![uid] = AddPhotos(@, photos)]
            /\ events' = PublishAlbumEvent("updated", uid)
            /\ Answer("AddPhotosToAlbum", FALSE, uid, TRUE,
                      JSON(200, <<"photos added to album", uid>>))
  /\ UNCHANGED <<albumTable, originals, dlVars, thVars>>

\* lines 297-332
RemovePhotosFromAlbum ==
  /\ handled < MaxApi
  /\ \E unauthorized \in BOOLEAN, bindErr \in BOOLEAN, uid \in UIDs,
        photos \in Selections :
       IF unauthorized
         THEN /\ Answer("RemovePhotosFromAlbum", TRUE, NoAlbum, FALSE, AbortWithStatusJSON(401))
              /\ UNCHANGED <<albumPhotos, events>>
       ELSE IF bindErr \/ photos = {}
         THEN /\ Answer("RemovePhotosFromAlbum", FALSE, NoAlbum, FALSE, AbortWithStatusJSON(400))
              /\ UNCHANGED <<albumPhotos, events>>
       ELSE IF ~AlbumByUID(uid)
         THEN /\ Answer("RemovePhotosFromAlbum", FALSE, uid, TRUE, AbortWithStatusJSON(404))
              /\ UNCHANGED <<albumPhotos, events>>
       ELSE /\ albumPhotos' = [albumPhotos EXCEPT ![uid] =
                                 SelectExisting(@, Photos \ photos)]
            /\ events' = PublishAlbumEvent("updated", uid)
            /\ Answer("RemovePhotosFromAlbum", FALSE, uid, TRUE,
                      JSON(200, <<"photos removed from album", uid, photos>>))
  /\ UNCHANGED <<albumTable, originals, dlVars, thVars>>

\* ================================================================ database
\* album a1 is empty or holds photo 1; album a2 holds all photos, the last
\* one first, which is more than one search returns; each of the files that
\* a search of a2 returns exists or is missing
InitDb ==
  /\ \E k \in 0..1 :
       albumPhotos = [a \in Albums |->
         IF a = "a1" THEN [i \in 1..k |-> i]
         ELSE [i \in 1..MaxPhotos |-> MaxPhotos + 1 - i]]
  /\ \E M \in SUBSET {MaxPhotos + 1 - i : i \in 1..Count} :
       originals = Photos \ M

InitTh ==
  /\ fileMissing = {}
  /\ thumbUncached \in BOOLEAN
  /\ thumbFiles = {}
  /\ resized = [a \in Artifacts |-> 0]
  /\ cache = [k \in CacheKeys |-> NoEntry]
  /\ now = 0
  /\ th = [r \in ThReqs |-> ThIdle]

InitDl ==
  /\ tmpDir = FALSE
  /\ tmpFiles = {}
  /\ dl = [r \in DlReqs |-> DlIdle]

\* every album of the universe exists; no album API request yet
InitApi ==
  /\ albumTable = [a \in Albums |-> [exists |-> TRUE, favorite |-> FALSE]]
  /\ events = <<>>
  /\ api = ApiIdle
  /\ handled = 0

Init == InitDb /\ InitDl /\ InitTh /\ InitApi

\* the album covers are all that AlbumThumbnail reads of the database: album a1
\* is empty or starts with photo 1, album a2 starts with the last photo, whose
\* file exists or is missing
InitCovers ==
  /\ \E k \in 0..1 :
       albumPhotos = [a \in Albums |->
         IF a = "a1" THEN [i \in 1..k |-> i]
         ELSE [i \in 1..MaxPhotos |-> MaxPhotos + 1 - i]]
  /\ originals \in {Photos, Photos \ {MaxPhotos}}

InitThumbs == InitCovers /\ InitDl /\ InitTh /\ InitApi

NextDl == \E r \in DlReqs : DownloadAlbum(r)

\* the thumbnail configuration plays no part in an archive export
InitArchive == Init /\ thumbUncached = FALSE

SpecDl == InitArchive /\ [][NextDl]_vars

NextTh == (\E r \in ThReqs : AlbumThumbnail(r)) \/ Tick

SpecTh == InitThumbs /\ [][NextTh]_vars

\* the two handlers side by side, one request of each
Next == DownloadAlbum(1) \/ AlbumThumbnail(1) \/ Tick

Spec == Init /\ [][Next]_vars
\* the album records at the start: album a1 exists or has not been created
\* yet, album a2 exists; no request of the other handlers is under way
InitAlbums ==
  /\ InitDb /\ originals = Photos
  /\ InitDl /\ InitTh /\ thumbUncached = FALSE
  /\ \E e \in BOOLEAN :
       /\ albumTable = [a \in Albums |->
            [exists |-> (a = "a2" \/ e), favorite |-> FALSE]]
       /\ ~e => albumPhotos["a1"] = <<>>
  /\ events = <<>>
  /\ api = ApiIdle
  /\ handled = 0

NextApi ==
  \/ GetAlbums
  \/ GetAlbum
  \/ CreateAlbum
  \/ UpdateAlbum
  \/ DeleteAlbum
  \/ LikeAlbum
  \/ DislikeAlbum
  \/ AddPhotosToAlbum
  \/ RemovePhotosFromAlbum

SpecApi == InitAlbums /\ [][NextApi]_vars

\* ================================================================== claims

\* the files of the entries of the archive of request r, in archive order
EntryFiles(r) == [i \in 1..Len(dl[r].entries) |-> dl[r].entries[i].file]

\* request r returns in this step, after c.File has served its archive
ReturnsAfterServing(r) ==
  dl[r].pc = "remove" /\ dl'[r].pc = "done" /\ dl[r].served

\* C1, as stated: when a request that served its archive returns, no file is
\* left at the path of its temp archive.
C1_AsStated ==
  [][\A r \in DlReqs : ReturnsAfterServing(r) => zipFileName(r) \notin tmpFiles']_vars

\* C1, amended: serving is always followed by the attempt to remove the temp
\* archive, and when the request returns the file is gone unless the removal
\* failed, which is logged.
C1_RemovedOrLogged ==
  [][\A r \in DlReqs :
       /\ (dl[r].pc = "serve" /\ dl'[r].pc # "serve") => dl'[r].pc = "remove"
       /\ ReturnsAfterServing(r) =>
            (zipFileName(r) \notin tmpFiles' \/ dl'[r].removeLogged)]_vars

\* C1 witness: a request with a missing source file has served its archive
\* and returned, and the archive is gone.
C1_Witness ==
  \E r \in DlReqs :
    /\ dl[r].pc = "done" /\ dl[r].served /\ dl[r].resp.status = 200
    /\ dl[r].skipped # <<>> /\ ~dl[r].removeLogged
    /\ zipFileName(r) \notin tmpFiles

\* C2, as stated: a request whose build was aborted by a failed append has
\* answered 500, has served nothing, and has left no file at its archive path.
C2_PartialArchiveDiscarded ==
  \A r \in DlReqs :
    (dl[r].pc = "done" /\ dl[r].created /\ ~dl[r].built) =>
      /\ dl[r].resp.status = 500
      /\ ~dl[r].served
      /\ zipFileName(r) \notin tmpFiles

\* C3, as stated: two requests for the same album that are both between the
\* creation of their archive and their return have different archive names.
C3_DistinctNames ==
  \A r1, r2 \in DlReqs :
    (/\ r1 # r2
     /\ dl[r1].uid = dl[r2].uid
     /\ dl[r1].pc \in {"create", "loop", "serve", "remove"}
     /\ dl[r2].pc \in {"create", "loop", "serve", "remove"})
      => zipFileName(r1) # zipFileName(r2)

\* C4: a missing source file never aborts the build: an abort happens only
\* at a source file that exists, and a completed build holds an entry for
\* every existing file of the result set and none for a missing one.
C4_MissingSkipped ==
  \A r \in DlReqs :
    /\ (dl[r].pc = "done" /\ dl[r].created /\ ~dl[r].built) =>
         (dl[r].n < Len(dl[r].p) /\ dl[r].p[dl[r].n + 1] \in originals)
    /\ dl[r].built =>
         /\ dl[r].n = Len(dl[r].p)
         /\ {dl[r].entries[i].file : i \in 1..Len(dl[r].entries)}
              = {dl[r].p[i] : i \in 1..Len(dl[r].p)} \cap originals
         /\ {dl[r].skipped[i] : i \in 1..Len(dl[r].skipped)}
              = {dl[r].p[i] : i \in 1..Len(dl[r].p)} \ originals

\* C4 witness: a completed build that skipped a missing file and archived
\* an existing one.
C4_Witness ==
  \E r \in DlReqs :
    dl[r].built /\ dl[r].skipped # <<>> /\ dl[r].entries # <<>>

\* C5: at every point of the build the files of the archive's entries are the
\* part of the result set processed so far without the missing files, in the
\* order of the result set.
C5_InputOrder ==
  \A r \in DlReqs :
    EntryFiles(r) = SelectExisting(SubSeq(dl[r].p, 1, dl[r].n), originals)

\* C5 witness: a build in progress has processed two files and archived both.
C5_Witness ==
  \E r \in DlReqs :
    dl[r].pc = "loop" /\ dl[r].n = 2 /\ Len(dl[r].entries) = 2

\* C10, as stated: a request whose completed build archived no file is
\* answered with an icon and not with a zip file.
C10_IconForEmptyArchive ==
  \A r \in DlReqs :
    (dl[r].pc = "done" /\ dl[r].built /\ dl[r].entries = <<>>) =>
      /\ dl[r].resp.ctype = "image/svg+xml"
      /\ ~dl[r].served
\* the source file of the album's thumbnail exists
HasSource(uid) == HasAlbumThumb(uid) /\ FileExists(AlbumThumbByUID(uid))

\* request r was not stopped by the token check or the type lookup
Admitted(r) == ~th[r].invalidToken /\ th[r].typeName \in TypeNames

\* C6, as stated: a request without the download flag for a type that
\* exceeds the size limit runs no resize and is answered with the original
\* file, whatever the memory cache holds.
C6_OriginalServed ==
  \A r \in ThReqs :
    (/\ th[r].pc = "done" /\ Admitted(r)
     /\ ExceedsLimit(th[r].typeName) /\ ~th[r].download
     /\ HasSource(th[r].uid))
      => /\ th[r].resizes = 0
         /\ th[r].resp = Data(200, "original", <<"file", AlbumThumbByUID(th[r].uid)>>)

\* request r performs its memory cache lookup in this step
LooksUp(r) == th[r].pc = "idle" /\ th'[r].looked

\* C7: a lookup made less than an hour after the entry of its key was stored
\* is answered with the stored bytes, without source lookup or generation; a
\* lookup made more than an hour after it is a miss; no lookup changes the
\* cache, so a hit does not extend the lifetime of the entry.
C7_HourFromStore ==
  [][\A r \in ThReqs :
       LooksUp(r) =>
         LET e == cache[cacheKey(th'[r].uid, th'[r].typeName)] IN
         /\ cache' = cache
         /\ (e # NoEntry /\ now - e.at < Hour) =>
              /\ th'[r].pc = "done" /\ th'[r].hit
              /\ th'[r].resp = Data(200, "image/jpeg", e.val)
              /\ ~th'[r].resolved /\ th'[r].generator = "" /\ th'[r].resizes = 0
         /\ (e # NoEntry /\ now - e.at > Hour) =>
              (th'[r].pc = "miss" /\ ~th'[r].hit)]_vars

\* C7 witness: a request was answered from the memory cache with the bytes
\* another request has stored under the same key, and a third lookup of the
\* key would now be too late.
C7_Witness ==
  \E r, q \in ThReqs :
    /\ r # q /\ th[q].stored /\ th[r].hit
    /\ th[r].uid = th[q].uid /\ th[r].typeName = th[q].typeName
    /\ th[r].resp = th[q].resp
    /\ now > cache[cacheKey(th[q].uid, th[q].typeName)].exp

\* C8: a request with an invalid token is answered 403 with the broken icon
\* and has done nothing else: no cache lookup or store, no source lookup, no
\* generation; no temp folder and no archive file.  It is the only request
\* of its handler here, so the shared state is still as it was at the start.
C8_GateFirst ==
  /\ \A r \in ThReqs :
       th[r].invalidToken =>
         /\ th[r].pc = "done"
         /\ th[r].resp = Data(403, "image/svg+xml", brokenIconSvg)
         /\ ~th[r].looked /\ ~th[r].hit /\ ~th[r].stored
         /\ ~th[r].resolved /\ th[r].generator = "" /\ th[r].resizes = 0
         /\ cache = [k \in CacheKeys |-> NoEntry]
         /\ thumbFiles = {} /\ fileMissing = {}
         /\ resized = [a \in Artifacts |-> 0]
  /\ \A r \in DlReqs :
       dl[r].invalidToken =>
         /\ dl[r].pc = "done"
         /\ dl[r].resp = Data(403, "image/svg+xml", brokenIconSvg)
         /\ ~dl[r].madeDir /\ ~dl[r].created
         /\ ~tmpDir /\ tmpFiles = {}

\* C8 witness: a thumbnail request and a download request were both refused.
C8_Witness ==
  /\ \E r \in ThReqs : th[r].invalidToken /\ th[r].resp.status = 403
  /\ \E r \in DlReqs : dl[r].invalidToken /\ dl[r].resp.status = 403

\* C9, as stated: with an on-demand type or in uncached mode, an admitted
\* request whose source exists and that the size limit does not stop has
\* run the on-demand generator.
C9_AsStated ==
  \A r \in ThReqs :
    (/\ th[r].pc = "done" /\ Admitted(r)
     /\ HasSource(th[r].uid)
     /\ ~(ExceedsLimit(th[r].typeName) /\ ~th[r].download)
     /\ (thumbUncached \/ OnDemand(th[r].typeName)))
      => (th[r].generator = "FromFile" /\ th[r].resizes = 1)

\* C9, amended: the same for the requests that missed the memory cache: one
\* that has found its source and passed the size limit takes the on-demand
\* generator, resizes, and reads a scratch copy, not a published artifact.
C9_MissRegenerates ==
  \A r \in ThReqs :
    (/\ th[r].resolved /\ FileExists(th[r].f)
     /\ ~(ExceedsLimit(th[r].typeName) /\ ~th[r].download)
     /\ (thumbUncached \/ OnDemand(th[r].typeName)))
      => /\ th[r].generator = "FromFile"
         /\ th[r].pc \in {"resize", "read", "done"}
         /\ th[r].pc \in {"read", "done"} => th[r].resizes = 1
         /\ th[r].thumbnail \notin thumbFiles

\* C9 witness: two requests for the same thumbnail have both run the
\* on-demand generator and both were answered with the thumbnail.
C9_Witness ==
  \E r, q \in ThReqs :
    /\ r # q
    /\ th[r].uid = th[q].uid /\ th[r].typeName = th[q].typeName
    /\ th[r].generator = "FromFile" /\ th[q].generator = "FromFile"
    /\ th[r].resizes = 1 /\ th[q].resizes = 1
    /\ th[r].resp.ctype = "image/jpeg" /\ th[q].resp.ctype = "image/jpeg"

\* C11: whatever the number of photos in the album, the result set of a
\* request holds at most Count files, the loop never goes past it, and the
\* entries of the archive and the skipped files together are at most Count.
C11_AtMostCount ==
  \A r \in DlReqs :
    /\ Len(dl[r].p) <= Count
    /\ dl[r].n <= Count
    /\ Len(dl[r].entries) + Len(dl[r].skipped) <= Count

\* C11 witness: the build for an album with more than Count photos is
\* complete, and entries and skipped files together are exactly Count.
C11_Witness ==
  \E r \in DlReqs :
    /\ dl[r].built
    /\ Len(albumPhotos[dl[r].uid]) > Count
    /\ Len(dl[r].entries) + Len(dl[r].skipped) = Count

\* request r, whose album has a cover of which the source file does not
\* exist, passes the source lookup in this step
FindsSourceMissing(r) ==
  /\ th[r].pc = "miss" /\ th'[r].pc # "miss"
  /\ HasAlbumThumb(th[r].uid)
  /\ ~FileExists(AlbumThumbByUID(th[r].uid))

C13_AsStated ==
  \A r, q \in ThReqs :
    (/\ r # q
     /\ th[r].uid = th[q].uid /\ th[r].typeName = th[q].typeName
     /\ th[r].generator = "FromCache" /\ th[q].generator = "FromCache")
      => ~(th[r].resizes = 1 /\ th[q].resizes = 1)

\* C13, amended: in the cached mode a request that finds the artifact
\* published reuses it and never resizes; one that does not find it resizes
\* once; no request resizes after its generator has returned; and a request
\* whose read succeeds is answered with the bytes of the thumbnail of its
\* source file and type.
C13_ReusePublished ==
  [][\A r \in ThReqs :
       /\ (th[r].pc = "miss" /\ th'[r].generator = "FromCache") =>
            LET a == Artifact(th'[r].f, th[r].typeName) IN
            /\ resized' = resized /\ th'[r].resizes = 0
            /\ IF a \in thumbFiles
                 THEN th'[r].pc = "read" /\ th'[r].thumbnail = a
                 ELSE th'[r].pc = "resize"
       /\ (th[r].pc = "resize" /\ th'[r].pc # "resize") =>
            /\ th[r].resizes = 0 /\ th'[r].resizes = 1
            /\ th'[r].pc \in {"read", "done"}
       /\ (th[r].pc = "read" /\ th'[r].pc # "read") =>
            /\ th'[r].resizes = th[r].resizes /\ resized' = resized
            /\ th'[r].pc = "done"
            /\ th'[r].resp.ctype = "image/jpeg" =>
                 th'[r].resp.body = ThumbData(th[r].f, th[r].typeName)]_vars

\* C13 witness: of two requests for the same (uid, type) that both missed
\* the memory cache, one has resized and published the artifact, the other
\* has reused it without a resize, and both got the same thumbnail bytes.
C13_Witness ==
  \E r, q \in ThReqs :
    /\ r # q
    /\ th[r].uid = th[q].uid /\ th[r].typeName = th[q].typeName
    /\ th[r].generator = "FromCache" /\ th[q].generator = "FromCache"
    /\ th[r].resizes = 1 /\ th[q].resizes = 0
    /\ th[r].stored /\ th[q].stored
    /\ th[r].resp.ctype = "image/jpeg" /\ th[q].resp.body = th[r].resp.body

\* C14: a request serves its archive only after its build is complete: from
\* the serving on, every file of the result set has been processed and the
\* request's zip writer and file are closed; the writer is open only while
\* the loop runs; and a request that returned without completing its build
\* has served nothing and was not answered with a zip file.
C14_ServeAfterBuild ==
  \A r \in DlReqs :
    /\ (dl[r].pc \in {"serve", "remove"} \/ dl[r].served) =>
         /\ dl[r].built /\ dl[r].n = Len(dl[r].p)
         /\ ~dl[r].writerOpen /\ ~dl[r].fileOpen
    /\ (dl[r].writerOpen \/ dl[r].fileOpen) => dl[r].pc = "loop"
    /\ (dl[r].pc = "done" /\ ~dl[r].built) =>
         /\ ~dl[r].served
         /\ dl[r].resp.ctype # "application/zip"

\* C14 witness: one request is about to serve the archive it has built and
\* closed, another was aborted after it had written an entry and got a 500.
C14_Witness ==
  \E r, q \in DlReqs :
    /\ dl[r].pc = "serve" /\ dl[r].entries # <<>>
    /\ dl[q].pc = "done" /\ dl[q].created /\ ~dl[q].built
    /\ dl[q].entries # <<>> /\ dl[q].resp.status = 500

\* C15: the memory cache changes only in the step in which a request that
\* missed it, and whose generator returned a thumbnail, has read the bytes:
\* that step stores these bytes under the request's key and answers with
\* them.  So every entry, and every body of a cache hit, is the thumbnail of
\* the album's cover in the type of the key, never an icon or an original.
C15_OnlyThumbnailsStored ==
  [][/\ cache' # cache =>
          \E r \in ThReqs :
            LET k == cacheKey(th[r].uid, th[r].typeName)
                v == ThumbData(th[r].f, th[r].typeName)
            IN
            /\ th[r].pc = "read" /\ th'[r].pc = "done"
            /\ th[r].looked /\ ~th[r].hit /\ th[r].thumbnail # <<>>
            /\ th'[r].stored /\ th'[r].resp.ctype = "image/jpeg"
            /\ th'[r].resp.body = v
            /\ cache' = [cache EXCEPT ![k] = [val |-> v, exp |-> now + Hour, at |-> now]]
     /\ \A uid \in Albums, t \in TypeNames :
          cache'[cacheKey(uid, t)] # NoEntry =>
            cache'[cacheKey(uid, t)].val = ThumbData(AlbumThumbByUID(uid), t)
     /\ \A r \in ThReqs :
          th'[r].hit =>
            th'[r].resp.body = ThumbData(AlbumThumbByUID(th'[r].uid), th'[r].typeName)
     /\ \A r \in ThReqs :
          (th'[r].pc = "done" /\ th'[r].resp.ctype # "image/jpeg") => ~th'[r].stored]_vars

\* C15 witness: of two requests for the same key the generation of one has
\* failed and nothing was stored for it; the other has stored the thumbnail
\* bytes it was answered with.
C15_Witness ==
  \E r, q \in ThReqs :
    /\ r # q /\ th[r].uid = th[q].uid /\ th[r].typeName = th[q].typeName
    /\ th[r].pc = "done" /\ th[r].resizes = 1 /\ ~th[r].stored
    /\ th[r].resp.ctype = "image/svg+xml"
    /\ th[q].stored
    /\ cache[cacheKey(th[q].uid, th[q].typeName)].val = th[q].resp.body

\* the generator of request r has failed
GenerationFailed(r) ==
  th[r].pc = "done" /\ th[r].resizes = 1 /\ th[r].thumbnail = <<>>

\* the generator of request r has returned a thumbnail and the read of it
\* has failed
ReadFailed(r) ==
  th[r].pc = "done" /\ th[r].thumbnail # <<>> /\ ~th[r].stored

\* C16, as stated: a request whose read failed after a successful generation
\* and a request whose generation failed got the same status, content type
\* and icon, and neither has written the memory cache.
C16_SameFallback ==
  \A r, q \in ThReqs :
    (GenerationFailed(r) /\ ReadFailed(q)) =>
      /\ th[r].resp.status = th[q].resp.status
      /\ th[r].resp.ctype = th[q].resp.ctype
      /\ th[r].resp.body = th[q].resp.body
      /\ ~th[r].stored /\ ~th[q].stored

\* request r is stopped by the type lookup in this step
UnknownType(r) ==
  /\ th[r].pc = "idle" /\ th'[r].pc # "idle"
  /\ ~th'[r].invalidToken /\ th'[r].typeName \notin TypeNames

\* C17: a request with a valid token and an unknown type is answered 200
\* with the fallback icon in its first step, and this step looks into no
\* cache, resolves no source, reports no file and generates nothing: the
\* memory cache, the thumbnail folder, the missing flags and the database
\* stay as they are.
C17_UnknownTypeNoEffect ==
  [][\A r \in ThReqs :
       UnknownType(r) =>
         /\ th'[r].pc = "done"
         /\ th'[r].resp = Data(200, "image/svg+xml", photoIconSvg)
         /\ ~th'[r].looked /\ ~th'[r].hit /\ ~th'[r].stored
         /\ ~th'[r].resolved /\ th'[r].reported = ""
         /\ th'[r].generator = "" /\ th'[r].resizes = 0
         /\ cache' = cache /\ thumbFiles' = thumbFiles
         /\ fileMissing' = fileMissing /\ resized' = resized
         /\ albumPhotos' = albumPhotos /\ originals' = originals]_vars

\* C17 witness: a request with an unknown type was answered with the icon
\* while the memory cache and the thumbnail folder hold what another request
\* has put there.
C17_Witness ==
  \E r, q \in ThReqs :
    /\ th[r].pc = "done" /\ ~th[r].invalidToken
    /\ th[r].typeName \notin TypeNames /\ th[r].resp.status = 200
    /\ th[q].stored /\ thumbFiles # {}
    /\ cache # [k \in CacheKeys |-> NoEntry]

\* request r fails to create the temp folder in this step
MkdirFails(r) ==
  /\ dl[r].pc = "idle" /\ dl'[r].pc = "done"
  /\ dl'[r].resp.status = 500

\* request r fails to create the temp archive file in this step
CreateFails(r) ==
  dl[r].pc = "create" /\ dl'[r].pc = "done"

\* C18: a request that cannot create the temp folder or the temp archive
\* file returns in that step with a 500 and nothing else: it has processed
\* no source file, written no entry, served nothing, and the step leaves the
\* files of the temp folder as they were.
C18_CreateFailure ==
  [][\A r \in DlReqs :
       (MkdirFails(r) \/ CreateFails(r)) =>
         /\ dl'[r].resp = AbortWithStatusJSON(500)
         /\ ~dl'[r].created /\ ~dl'[r].built /\ ~dl'[r].served
         /\ dl'[r].n = 0 /\ dl'[r].entries = <<>> /\ dl'[r].skipped = <<>>
         /\ ~dl'[r].fileOpen /\ ~dl'[r].writerOpen
         /\ tmpFiles' = tmpFiles
         /\ MkdirFails(r) => (~tmpDir' /\ ~dl'[r].madeDir)]_vars

\* C18 witness: one request has failed to create the temp folder and another
\* to create its archive file; both got a 500, no file is in the temp folder.
C18_Witness ==
  \E r, q \in DlReqs :
    /\ dl[r].pc = "done" /\ ~dl[r].invalidToken /\ ~dl[r].madeDir
    /\ dl[r].resp.status = 500
    /\ dl[q].pc = "done" /\ dl[q].madeDir /\ ~dl[q].created
    /\ dl[q].resp.status = 500
    /\ tmpFiles = {}

\* C19, as stated: every request with the download flag that was answered
\* with thumbnail bytes carries the attachment header, whether the bytes
\* came from the memory cache or from a fresh generation.
C19_AttachmentHeader ==
  \A r \in ThReqs :
    (th[r].pc = "done" /\ th[r].download /\ th[r].resp.ctype = "image/jpeg")
      => th[r].resp.disposition # <<>>

\* an album API request is handled in this step
Handles == handled' = handled + 1

\* C20, as stated: a request of the album API that is not authorized is
\* answered 401 and nothing else happens: no query for albums is made, the
\* album records and the photos of the albums stay as they are, and no album
\* event is published.
C20_AuthFirst ==
  [][(Handles /\ api'.unauthorized) =>
       /\ api'.resp = AbortWithStatusJSON(401)
       /\ ~api'.read
       /\ albumTable' = albumTable /\ albumPhotos' = albumPhotos
       /\ events' = events]_vars
====
